---- MODULE Spec2Model ----
(***************************************************************************)
(* State-machine model of the To-Do dashboard client (App.tsx,             *)
(* components/TaskForm.tsx, components/TaskCard.tsx, services/api.ts)      *)
(* together with the HTTP backend it talks to.                             *)
(* Every asynchronous handler is split at its awaits:                      *)
(* the step that issues the request, the step in which the backend handles *)
(* it, and the step in which the response reaches the client and the rest  *)
(* of the handler runs.                                                    *)
(*                                                                         *)
(* Text values: titles, notes and dates are strings; the tags input of the *)
(* form and the tags themselves are sequences of one-character strings so  *)
(* that split / trim / join are computed character by character.           *)
(*                                                                         *)
(* Spec is the dashboard with its requests; the tab stays 'all' in it.     *)
(* ViewSpec is the filter / sort engine and the stats: a dashboard that    *)
(* holds any task list of the bound, at several instants and time zones,   *)
(* in which the tabs are clicked.                                          *)
(* FormSpec is the editor with any text typed into the form, for a new     *)
(* task or for a persisted one with any tag list of the bound: the         *)
(* conversions between form text, payload and task.                        *)
(* DocSpec is the document area of one card (components/TaskCard.tsx) with *)
(* its fetch, upload and delete requests.                                  *)
(***************************************************************************)
EXTENDS Integers, Sequences, FiniteSets, TLC

\* ---------------------------------------------------------------- bounds
\* total number of HTTP requests the client issues in one behaviour
MaxOps == 3

\* ------------------------------------------------------------- constants
\* JavaScript null (due_date / notes of a task or of a payload)
NULL == "null"
\* error banner text set by loadTasks' catch block
LoadErrorMsg == "Verbindung zum Server fehlgeschlagen"
\* alert texts
ToggleAlert == "Status konnte nicht aktualisiert werden."
DeleteAlert == "Loeschen fehlgeschlagen."
SaveAlert == "Fehler beim Speichern"
NoAlert == "none"
\* the user's answer to window.confirm
ConfirmYes == "confirm: ok"
ConfirmNo == "confirm: cancel"
\* a falsy tag filter (null or ''): fetchTasks is called with tag undefined
NoTag == <<>>
\* priority preselected in an empty form
DefaultPriority == 3

\* ------------------------------------------------ text helpers (api.ts)
RECURSIVE TrimStart(_)
TrimStart(s) == IF s # <<>> /\ Head(s) = " " THEN TrimStart(Tail(s)) ELSE s

RECURSIVE TrimEnd(_)
TrimEnd(s) ==
    IF s # <<>> /\ s[Len(s)] = " " THEN TrimEnd(SubSeq(s, 1, Len(s) - 1)) ELSE s

\* Trim that leaves the whitespace at the end
TrimLeading(s) == TrimStart(s)

\* String.prototype.trim
Trim(s) == TrimEnd(TrimStart(s))

\* index of the first comma of s, 0 when there is none
FirstComma(s) ==
    IF \E i \in 1..Len(s) : s[i] = ","
    THEN CHOOSE i \in 1..Len(s) : s[i] = "," /\ \A j \in 1..(i - 1) : s[j] # ","
    ELSE 0

RECURSIVE Split(_)
\* String.prototype.split(','): the segments between commas, empty ones kept
Split(s) ==
    LET c == FirstComma(s)
    IN  IF c = 0 THEN <<s>>
        ELSE <<SubSeq(s, 1, c - 1)>> \o Split(SubSeq(s, c + 1, Len(s)))

NonEmpty(t) == Len(t) > 0

\* data.tags.split(',').map(t => t.trim()).filter(t => t.length > 0)
TagsArray(str) ==
    LET segs == Split(str)
    IN  SelectSeq([i \in 1..Len(segs) |-> Trim(segs[i])], NonEmpty)

RECURSIVE Join(_)
\* Array.prototype.join(', ')
Join(tags) ==
    IF tags = <<>> THEN <<>>
    ELSE IF Len(tags) = 1 THEN tags[1]
    ELSE tags[1] \o <<",", " ">> \o Join(Tail(tags))

\* OrNull without the `|| null`
OrNullKept(x) == x

\* x || null for a string x
OrNull(x) == IF x = "" THEN NULL ELSE x

\* x || '' for a string-or-null x
OrEmpty(x) == IF x = NULL THEN "" ELSE x

Range(s) == {s[i] : i \in 1..Len(s)}

\* ------------------------------------------------------ request payloads
\* createTask: the JSON body of POST /tasks
CreatePayload(data) ==
    [title |-> data.title, priority |-> data.priority,
     due_date |-> OrNull(data.due_date), notes |-> OrNull(data.notes),
     tags |-> TagsArray(data.tags)]

\* updateTask called with the form data: the JSON body of PATCH /tasks/{id}
UpdatePayload(data) ==
    [title |-> data.title, priority |-> data.priority,
     due_date |-> IF data.due_date = "" THEN NULL ELSE data.due_date,
     notes |-> IF data.notes = "" THEN NULL ELSE data.notes,
     tags |-> TagsArray(data.tags)]

\* placeholder payload of requests that carry no task fields
NoPayload ==
    [title |-> "", priority |-> DefaultPriority, due_date |-> NULL,
     notes |-> NULL, tags |-> <<>>]

\* ------------------------------------------------------------- form data
\* the form of a new task
EmptyForm ==
    [title |-> "", priority |-> DefaultPriority, due_date |-> "",
     notes |-> "", tags |-> <<>>]

\* the form of an existing task (TaskForm's effect)
FormOfTask(t) ==
    [title |-> t.title, priority |-> t.priority,
     due_date |-> OrEmpty(t.due_date), notes |-> OrEmpty(t.notes),
     tags |-> Join(t.tags)]

\* TaskForm's effect on [initialData, isOpen]: runs when either changed
FormEffect(open, editing, form) ==
    IF open
    THEN IF editing # <<>> THEN FormOfTask(editing[1]) ELSE EmptyForm
    ELSE form

\* what the user types into the form: <<field, value>>
FieldInputs == { <<"title", "b">> }

\* what the user types into the search box
SearchInputs == {"", "a"}

\* ------------------------------------------------------------- the backend
\* the tasks the backend holds when the dashboard is mounted
SeedTasks ==
    << [id |-> 1, title |-> "a", done |-> FALSE, priority |-> 1,
        due_date |-> NULL, notes |-> NULL, tags |-> << <<"x">> >>],
       [id |-> 2, title |-> "b", done |-> TRUE, priority |-> 2,
        due_date |-> "2024-05-01", notes |-> "n", tags |-> <<>>] >>

\* GET /tasks?show_done=true&search=..&tag=..: does task t match
Matches(t, search, tag) ==
    /\ (search = "" \/ t.title = search)
    /\ (tag = NoTag \/ tag \in Range(t.tags))

\* GET /tasks: the matching tasks in the backend's order
ServerList(srv, search, tag) ==
    LET Keep(t) == Matches(t, search, tag) IN SelectSeq(srv, Keep)

\* POST /tasks: the task the backend stores for a payload
ServerCreate(srv, id, p) ==
    Append(srv, [id |-> id, title |-> p.title, done |-> FALSE,
                 priority |-> p.priority, due_date |-> p.due_date,
                 notes |-> p.notes, tags |-> p.tags])

\* PATCH /tasks/{id} with the form fields
ServerUpdate(srv, id, p) ==
    [i \in 1..Len(srv) |->
        IF srv[i].id = id
        THEN [srv[i] EXCEPT !.title = p.title, !.priority = p.priority,
                            !.due_date = p.due_date, !.notes = p.notes,
                            !.tags = p.tags]
        ELSE srv[i]]

\* PATCH /tasks/{id} with {done}
ServerSetDone(srv, id, d) ==
    [i \in 1..Len(srv) |-> IF srv[i].id = id THEN [srv[i] EXCEPT !.done = d] ELSE srv[i]]

\* DELETE /tasks/{id}
ServerDelete(srv, id) ==
    LET Keep(t) == t.id # id IN SelectSeq(srv, Keep)

HasTask(srv, id) == \E i \in 1..Len(srv) : srv[i].id = id

\* --------------------------------------------- local list updates (App.tsx)
\* SetDone without the comparison of ids: prev.map(t => ({ ...t, done: d }))
SetDoneAll(list, id, d) ==
    [i \in 1..Len(list) |-> [list[i] EXCEPT !.done = d]]

\* prev.map(t => t.id === id ? { ...t, done: d } : t)
SetDone(list, id, d) ==
    [i \in 1..Len(list) |-> IF list[i].id = id THEN [list[i] EXCEPT !.done = d] ELSE list[i]]

\* RemoveId with the test inverted: prev.filter(t => t.id === id)
RemoveOthers(list, id) ==
    LET Keep(t) == t.id = id IN SelectSeq(list, Keep)

\* prev.filter(t => t.id !== id)
RemoveId(list, id) ==
    LET Keep(t) == t.id # id IN SelectSeq(list, Keep)

\* ------------------------------------------------- dates (App.tsx, TaskCard.tsx)
\* An instant is a number of hours since 1970-01-01T00:00Z, a time-zone offset
\* the number of hours by which local time is ahead of UTC.

\* the calendar dates that occur as due dates ("YYYY-MM-DD")
DueDates == {"2024-04-30", "2024-05-01", "2024-05-02"}

\* the number of days from 1970-01-01 to a calendar date
DayNumber(s) ==
    CASE s = "2024-04-30" -> 19843
      [] s = "2024-05-01" -> 19844
      [] s = "2024-05-02" -> 19845

\* new Date("YYYY-MM-DD"): a date-only string is read as midnight UTC
ParseDate(s) == DayNumber(s) * 24

\* the local calendar day of instant t, the day toDateString() prints
LocalDay(t, off) == (t + off) \div 24

\* setHours(0,0,0,0): the instant at which the local day of t began
StartOfLocalDay(t, off) == LocalDay(t, off) * 24 - off

\* `t.due_date` as a condition: neither null nor ''
HasDueDate(t) == t.due_date # NULL /\ t.due_date # ""

\* ------------------------------------------- filter / sort engine (App.tsx)
\* case 'today' of filteredTasks
FilterIsToday(t, now, off) ==
    /\ ~t.done
    /\ HasDueDate(t)
    /\ LocalDay(ParseDate(t.due_date), off) = LocalDay(now, off)

\* case 'overdue' of filteredTasks
FilterIsOverdue(t, now, off) ==
    /\ ~t.done
    /\ HasDueDate(t)
    /\ ParseDate(t.due_date) < StartOfLocalDay(now, off)

\* KeepsOpen without the test of done
KeepsOpenAny(t) == TRUE

\* case 'open' of filteredTasks
KeepsOpen(t) == ~t.done

\* the switch over currentFilter
Keeps(filter, t, now, off) ==
    CASE filter = "open" -> KeepsOpen(t)
      [] filter = "today" -> FilterIsToday(t, now, off)
      [] filter = "overdue" -> FilterIsOverdue(t, now, off)
      [] OTHER -> TRUE

FilterTasks(list, filter, now, off) ==
    LET Keep(t) == Keeps(filter, t, now, off) IN SelectSeq(list, Keep)

\* ByPriority with the operands exchanged
ByPriorityDesc(a, b) == b.priority - a.priority

\* a.priority - b.priority
ByPriority(a, b) == a.priority - b.priority

\* the comparator handed to result.sort
Compare(a, b) ==
    IF a.done # b.done THEN (IF a.done THEN 1 ELSE -1)
    ELSE IF a.priority # b.priority THEN ByPriority(a, b)
    ELSE IF HasDueDate(a) /\ HasDueDate(b)
         THEN ParseDate(a.due_date) - ParseDate(b.due_date)
    ELSE IF HasDueDate(a) /\ ~HasDueDate(b) THEN -1
    ELSE IF ~HasDueDate(a) /\ HasDueDate(b) THEN 1
    ELSE b.id - a.id

\* StaysBefore for a sort that does not keep the order of equal elements
StaysBeforeStrict(e, x) == Compare(e, x) < 0

\* Array.prototype.sort is stable: e, which precedes x in the input, stays
\* before x unless the comparator puts it after x
StaysBefore(e, x) == Compare(e, x) <= 0

RECURSIVE Insert(_, _)
\* x, which followed all of sorted in the input, put into place
Insert(sorted, x) ==
    IF sorted = <<>> THEN <<x>>
    ELSE IF StaysBefore(Head(sorted), x)
         THEN <<Head(sorted)>> \o Insert(Tail(sorted), x)
         ELSE <<x>> \o sorted

RECURSIVE SortTasks(_)
\* result.sort(comparator)
SortTasks(list) ==
    IF list = <<>> THEN <<>>
    ELSE Insert(SortTasks(SubSeq(list, 1, Len(list) - 1)), list[Len(list)])

\* the useMemo of filteredTasks
FilteredTasks(list, filter, now, off) ==
    SortTasks(FilterTasks(list, filter, now, off))

\* ------------------------------------------------- badges (TaskCard.tsx)
CardIsOverdue(t, now, off) ==
    /\ ~t.done
    /\ HasDueDate(t)
    /\ ParseDate(t.due_date) < StartOfLocalDay(now, off)

CardIsDueToday(t, now, off) ==
    /\ ~t.done
    /\ HasDueDate(t)
    /\ LocalDay(ParseDate(t.due_date), off) = LocalDay(now, off)

\* ------------------------------------------------------------------- stats
\* StatsIsOverdue without the test of done
StatsIsOverdueAnyStatus(t, now, off) ==
    HasDueDate(t) /\ ParseDate(t.due_date) < StartOfLocalDay(now, off)

\* the predicate of stats.overdue
StatsIsOverdue(t, now, off) ==
    /\ ~t.done
    /\ HasDueDate(t)
    /\ ParseDate(t.due_date) < StartOfLocalDay(now, off)

\* the predicate of stats.dueToday: compared with the day of local midnight
StatsIsDueToday(t, now, off) ==
    /\ ~t.done
    /\ HasDueDate(t)
    /\ LocalDay(ParseDate(t.due_date), off) = LocalDay(StartOfLocalDay(now, off), off)

\* the useMemo of stats
Stats(list, now, off) ==
    LET Open(t) == ~t.done
        Today(t) == StatsIsDueToday(t, now, off)
        Overdue(t) == StatsIsOverdue(t, now, off)
        total == Len(list)
        open == Len(SelectSeq(list, Open))
    IN  [total |-> total, open |-> open, done |-> total - open,
         dueToday |-> Len(SelectSeq(list, Today)),
         overdue |-> Len(SelectSeq(list, Overdue))]

\* ------------------------------------------- the debounce effect (App.tsx)
\* the effect's cleanup without its clearTimeout
ClearTimeoutSkipped(timers) == timers

\* the effect's cleanup, run before the effect runs again: clearTimeout of the
\* timer its previous run started (a no-op when that timer has fired)
ClearTimeout(timers) ==
    IF timers = <<>> THEN <<>> ELSE SubSeq(timers, 1, Len(timers) - 1)

\* setTimeout(() => loadTasks(), 300) in a render with the given search and tag
SetTimeout(timers, search, tag) == Append(timers, [search |-> search, tag |-> tag])


\* ------------------------------------------------------------------ state
VARIABLES
    tasks,        \* App: the local task list
    loading,      \* App: loading flag
    error,        \* App: error banner text or NULL
    searchQuery,  \* App: search box contents
    tagFilter,    \* App: active tag filter or NoTag
    isFormOpen,   \* App: is the editor shown
    editingTask,  \* App: <<>> (undefined) or <<task>>
    formData,     \* TaskForm: the form fields
    formLoading,  \* TaskForm: loading flag (submit control disabled)
    timer,        \* the pending debounce timers, oldest first: the search and
                  \* tag their loadTasks closures captured
    server,       \* backend: the stored tasks
    nextId,       \* backend: the id of the next created task
    ops,          \* HTTP requests in flight
    issued,       \* number of requests issued so far
    lastLoadRid,  \* number of the most recently issued task-list request
    dialog,       \* the alert() or confirm() dialog of the last step, or NoAlert
    currentFilter, \* App: the selected tab
    clock,        \* the current instant, what new Date() returns
    tzOffset,     \* the time-zone offset of the browser
    filteredTasks, \* App: the memoised output of the filter / sort engine
    stats,        \* App: the memoised stats
    documents,    \* TaskCard: the card's local document list
    docsLoading,  \* TaskCard: loading flag of the document area
    docsError,    \* TaskCard: error text of the document area or NULL
    serverDocs,   \* backend: the stored documents
    nextDocId,    \* backend: the id of the next uploaded document
    docOps,       \* the card's document requests in flight
    docIssued     \* number of document requests the card issued so far

vars == <<tasks, loading, error, searchQuery, tagFilter, isFormOpen, editingTask,
          formData, formLoading, timer, server, nextId, ops, issued, lastLoadRid,
          dialog, currentFilter, clock, tzOffset, filteredTasks, stats,
          documents, docsLoading, docsError, serverDocs, nextDocId, docOps,
          docIssued>>

appVars == <<tasks, loading, error, searchQuery, tagFilter, isFormOpen, editingTask>>
formVars == <<formData, formLoading>>
serverVars == <<server, nextId>>
netVars == <<ops, issued, lastLoadRid>>
cardVars == <<documents, docsLoading, docsError>>
docVars == <<documents, docsLoading, docsError, serverDocs, nextDocId, docOps,
             docIssued>>

\* the documents the backend stores before the dashboard is opened: one of
\* the first task, one of the second
SeedDocs == << [id |-> 1, task_id |-> 1], [id |-> 2, task_id |-> 2] >>

\* a card as useState leaves it, before its effect ran, and the backend's
\* documents
CardInit ==
    /\ documents = <<>>
    /\ docsLoading = FALSE
    /\ docsError = NULL
    /\ serverDocs = SeedDocs
    /\ nextDocId = Len(SeedDocs) + 1
    /\ docOps = {}
    /\ docIssued = 0

\* an HTTP request in flight; search/tag are the values the issuing closure
\* captured, cont says that TaskForm.handleSubmit awaits the request
\* prev (the done value a toggle replaced) and alone (no other request or timer
\* was pending when the form was submitted, none was issued before the reload)
\* only record what happened
Op(rid, kind, tid, val, payload, search, tag, cont) ==
    [rid |-> rid, kind |-> kind, stage |-> "req", ok |-> FALSE, tid |-> tid,
     val |-> val, payload |-> payload, search |-> search, tag |-> tag,
     data |-> <<>>, cont |-> cont, prev |-> FALSE, alone |-> FALSE]

Init ==
    /\ tasks = <<>>
    /\ loading = TRUE
    /\ error = NULL
    /\ searchQuery = ""
    /\ tagFilter = NoTag
    /\ isFormOpen = FALSE
    /\ editingTask = <<>>
    /\ formData = EmptyForm
    /\ formLoading = FALSE
    /\ timer = SetTimeout(<<>>, "", NoTag)
    /\ server = SeedTasks
    /\ nextId = Len(SeedTasks) + 1
    /\ ops = {}
    /\ issued = 0
    /\ lastLoadRid = 0
    /\ dialog = NoAlert
    /\ currentFilter = "all"
    /\ clock = ParseDate("2024-05-01") + 12
    /\ tzOffset = 0
    /\ filteredTasks = FilteredTasks(tasks, currentFilter, clock, tzOffset)
    /\ stats = Stats(tasks, clock, tzOffset)
    /\ CardInit

\* the render after a step of a handler: useMemo recomputes filteredTasks and
\* stats when the task list changed; the tab, the clock and the time zone
\* stay as they are, and so does the state of the cards, which no handler of
\* App or TaskForm writes
Render ==
    /\ UNCHANGED <<currentFilter, clock, tzOffset>>
    /\ UNCHANGED docVars
    /\ filteredTasks' = IF tasks' = tasks THEN filteredTasks
                        ELSE FilteredTasks(tasks', currentFilter, clock, tzOffset)
    /\ stats' = IF tasks' = tasks THEN stats ELSE Stats(tasks', clock, tzOffset)

\* ------------------------------------------------------- loadTasks (App.tsx)
\* the synchronous part of loadTasks up to the await of fetchTasks; rest is
\* the set of the other requests in flight
LoadTasks(rest, search, tag, cont, alone) ==
    /\ loading' = TRUE
    /\ error' = NULL
    /\ issued' = issued + 1
    /\ lastLoadRid' = issued + 1
    /\ ops' = rest \cup {[Op(issued + 1, "load", 0, FALSE, NoPayload, search, tag, cont)
                              EXCEPT !.alone = alone]}

\* the oldest pending debounce timer fires: loadTasks of the render that
\* started it
TimerFire ==
    /\ timer # <<>>
    /\ issued < MaxOps
    /\ LoadTasks(ops, timer[1].search, timer[1].tag, FALSE, FALSE)
    /\ timer' = Tail(timer)
    /\ dialog' = NoAlert
    /\ UNCHANGED <<tasks, searchQuery, tagFilter, isFormOpen, editingTask>>
    /\ UNCHANGED <<formVars, serverVars>>

\* the search input's onChange; the effect clears the old timer, starts a new one
SetSearchQuery(q) ==
    /\ q # searchQuery
    /\ searchQuery' = q
    /\ timer' = SetTimeout(ClearTimeout(timer), q, tagFilter)
    /\ dialog' = NoAlert
    /\ UNCHANGED <<tasks, loading, error, tagFilter, isFormOpen, editingTask>>
    /\ UNCHANGED <<formVars, serverVars, netVars>>

\* onTagClick of a card (tag of a listed task) or the tag chip's clear button
SetTagFilter(tag) ==
    /\ tag # tagFilter
    /\ tagFilter' = tag
    /\ timer' = SetTimeout(ClearTimeout(timer), searchQuery, tag)
    /\ dialog' = NoAlert
    /\ UNCHANGED <<tasks, loading, error, searchQuery, isFormOpen, editingTask>>
    /\ UNCHANGED <<formVars, serverVars, netVars>>

\* "Alles zuruecksetzen": search and tag filter cleared in one render
ResetAll ==
    /\ searchQuery # "" \/ tagFilter # NoTag
    /\ searchQuery' = ""
    /\ tagFilter' = NoTag
    /\ timer' = SetTimeout(ClearTimeout(timer), "", NoTag)
    /\ dialog' = NoAlert
    /\ UNCHANGED <<tasks, loading, error, isFormOpen, editingTask>>
    /\ UNCHANGED <<formVars, serverVars, netVars>>

\* the tags shown on the cards
ShownTags == UNION {Range(tasks[i].tags) : i \in 1..Len(tasks)}

\* "Erneut versuchen" in the error banner
Retry ==
    /\ error # NULL
    /\ issued < MaxOps
    /\ LoadTasks(ops, searchQuery, tagFilter, FALSE, FALSE)
    /\ dialog' = NoAlert
    /\ UNCHANGED <<tasks, searchQuery, tagFilter, isFormOpen, editingTask>>
    /\ UNCHANGED <<formVars, serverVars, timer>>

\* "Aktualisieren" in the header
Refresh ==
    /\ issued < MaxOps
    /\ LoadTasks(ops, searchQuery, tagFilter, FALSE, FALSE)
    /\ dialog' = NoAlert
    /\ UNCHANGED <<tasks, searchQuery, tagFilter, isFormOpen, editingTask>>
    /\ UNCHANGED <<formVars, serverVars, timer>>


\* ------------------------------------------------------ the editor (App.tsx)
\* the form fields after a render in which isOpen / initialData may have changed
FormAfter(open, editing) ==
    IF open = isFormOpen /\ editing = editingTask
    THEN formData
    ELSE FormEffect(open, editing, formData)

\* "Neue Aufgabe"
OpenCreateModal ==
    /\ editingTask' = <<>>
    /\ isFormOpen' = TRUE
    /\ formData' = FormAfter(TRUE, <<>>)
    /\ dialog' = NoAlert
    /\ UNCHANGED <<tasks, loading, error, searchQuery, tagFilter, formLoading>>
    /\ UNCHANGED <<serverVars, netVars, timer>>

\* the edit button of the card of tasks[i]
OpenEditModal(i) ==
    /\ editingTask' = <<tasks[i]>>
    /\ isFormOpen' = TRUE
    /\ formData' = FormAfter(TRUE, <<tasks[i]>>)
    /\ dialog' = NoAlert
    /\ UNCHANGED <<tasks, loading, error, searchQuery, tagFilter, formLoading>>
    /\ UNCHANGED <<serverVars, netVars, timer>>

\* onClose, called by "Abbrechen" and by the X button
CloseForm ==
    /\ isFormOpen
    /\ isFormOpen' = FALSE
    /\ editingTask' = <<>>
    /\ dialog' = NoAlert
    /\ UNCHANGED <<tasks, loading, error, searchQuery, tagFilter>>
    /\ UNCHANGED <<formVars, serverVars, netVars, timer>>

\* onChange of a form field
EditField(f, v) ==
    /\ isFormOpen
    /\ formData[f] # v
    /\ formData' = [formData EXCEPT ![f] = v]
    /\ dialog' = NoAlert
    /\ UNCHANGED <<appVars, formLoading, serverVars, netVars, timer>>

\* SubmitDisabled for a submit button without `disabled={loading}`
SubmitNeverDisabled == FALSE

\* the submit button's disabled attribute
SubmitDisabled == formLoading

\* TaskForm.handleSubmit up to the first await inside onSubmit: handleUpdate
\* when a task is being edited, handleCreate otherwise.  The title input is
\* required and the submit button is disabled while loading.  The bound on
\* the requests leaves room for the reload that follows a successful call.
Submit ==
    /\ isFormOpen
    /\ ~SubmitDisabled
    /\ formData.title # ""
    /\ issued + 2 <= MaxOps
    /\ formLoading' = TRUE
    /\ issued' = issued + 1
    /\ ops' = ops \cup
         { [ IF editingTask # <<>>
             THEN Op(issued + 1, "update", editingTask[1].id, FALSE,
                     UpdatePayload(formData), searchQuery, tagFilter, TRUE)
             ELSE Op(issued + 1, "create", 0, FALSE,
                     CreatePayload(formData), searchQuery, tagFilter, TRUE)
             EXCEPT !.alone = (ops = {} /\ timer = <<>>) ] }
    /\ dialog' = NoAlert
    /\ UNCHANGED <<appVars, formData, serverVars, timer, lastLoadRid>>

\* ------------------------------------------------ toggle and delete (App.tsx)
\* handleToggleDone(tasks[i]) up to the await of updateTask
HandleToggleDone(i) ==
    /\ issued < MaxOps
    /\ LET task == tasks[i]
           newStatus == ~task.done
       IN  /\ tasks' = SetDone(tasks, task.id, newStatus)
           /\ issued' = issued + 1
           /\ ops' = ops \cup {[Op(issued + 1, "toggle", task.id, newStatus,
                                   NoPayload, "", NoTag, FALSE)
                                   EXCEPT !.prev = task.done]}
           /\ dialog' = NoAlert
    /\ UNCHANGED <<loading, error, searchQuery, tagFilter, isFormOpen, editingTask>>
    /\ UNCHANGED <<formVars, serverVars, timer, lastLoadRid>>

\* ConfirmGate with the answer of window.confirm ignored
ConfirmGateAlways(confirmed) == TRUE

\* does handleDelete go on after window.confirm
ConfirmGate(confirmed) == confirmed

\* handleDelete(tasks[i]) up to the await of deleteTask; confirmed is the
\* user's answer to window.confirm
HandleDelete(i, confirmed) ==
    /\ issued < MaxOps
    /\ IF ConfirmGate(confirmed)
       THEN /\ issued' = issued + 1
            /\ ops' = ops \cup {Op(issued + 1, "delete", tasks[i].id, FALSE,
                                   NoPayload, "", NoTag, FALSE)}
       ELSE UNCHANGED <<issued, ops>>
    /\ dialog' = IF confirmed THEN ConfirmYes ELSE ConfirmNo
    /\ UNCHANGED <<appVars, formVars, serverVars, timer, lastLoadRid>>


\* ---------------------------------------------------------------- backend
\* how a request can end: answered 2xx, or refused (a non-2xx answer or a
\* network error, the backend unchanged)
Outcomes == {"ok", "refused"}

\* the backend's tasks after it carried out request op
ServerApply(op) ==
    CASE op.kind = "create" -> ServerCreate(server, nextId, op.payload)
      [] op.kind = "update" -> ServerUpdate(server, op.tid, op.payload)
      [] op.kind = "toggle" -> ServerSetDone(server, op.tid, op.val)
      [] op.kind = "delete" -> ServerDelete(server, op.tid)
      [] OTHER -> server

\* can the backend carry out op: PATCH and DELETE of an unknown id are 404
Servable(op) ==
    op.kind \in {"update", "toggle", "delete"} => HasTask(server, op.tid)

\* a request reaches the backend (or is lost) and its response is on its way
ServerHandle(op, outcome) ==
    /\ op \in ops
    /\ op.stage = "req"
    /\ outcome # "refused" => Servable(op)
    /\ server' = IF outcome = "refused" THEN server ELSE ServerApply(op)
    /\ nextId' = IF outcome # "refused" /\ op.kind = "create" THEN nextId + 1 ELSE nextId
    /\ ops' = (ops \ {op}) \cup
         {[op EXCEPT !.stage = "resp", !.ok = (outcome = "ok"),
                     !.data = IF outcome = "ok" /\ op.kind = "load"
                              THEN ServerList(server, op.search, op.tag)
                              ELSE <<>>]}
    /\ dialog' = NoAlert
    /\ UNCHANGED <<appVars, formVars, timer, issued, lastLoadRid>>

\* ------------------------------------------- responses reach the client
Arrived(op, kind) == op \in ops /\ op.kind = kind /\ op.stage = "resp"

\* Resolved without the check of response.ok
ResolvedAlways(op) == TRUE

\* api.ts: `if (!response.ok) throw`, or fetch rejected: does the await resolve
Resolved(op) == op.ok

\* LoadResult without setTasks(data)
LoadResultKept(prev, op) == prev

\* what a finished loadTasks stores in the task list
LoadResult(prev, op) == IF Resolved(op) THEN op.data ELSE prev

\* LoadError without the catch block's setError
LoadErrorSwallowed(prev, op) == prev

\* the error banner after a finished loadTasks: set by the catch block
LoadError(prev, op) == IF Resolved(op) THEN prev ELSE LoadErrorMsg

\* the rest of TaskForm.handleSubmit after onSubmit resolved: onClose(), finally
SubmitDone ==
    /\ isFormOpen' = FALSE
    /\ editingTask' = <<>>
    /\ formLoading' = FALSE

\* loadTasks after the await of fetchTasks (try / catch / finally), and
\* the caller that awaited it
ReceiveLoad(op) ==
    /\ Arrived(op, "load")
    /\ tasks' = LoadResult(tasks, op)
    /\ error' = LoadError(error, op)
    /\ loading' = FALSE
    /\ IF op.cont THEN SubmitDone ELSE UNCHANGED <<isFormOpen, editingTask, formLoading>>
    /\ ops' = ops \ {op}
    /\ dialog' = NoAlert
    /\ UNCHANGED <<searchQuery, tagFilter, formData, serverVars, timer, issued, lastLoadRid>>

\* RevertValue writing the new status again
RevertValueSame(newStatus) == newStatus

\* the value the catch block of handleToggleDone writes back
RevertValue(newStatus) == ~newStatus

\* handleToggleDone after the await of updateTask
ReceiveToggle(op) ==
    /\ Arrived(op, "toggle")
    /\ tasks' = IF Resolved(op) THEN tasks ELSE SetDone(tasks, op.tid, RevertValue(op.val))
    /\ ops' = ops \ {op}
    /\ dialog' = IF Resolved(op) THEN NoAlert ELSE ToggleAlert
    /\ UNCHANGED <<loading, error, searchQuery, tagFilter, isFormOpen, editingTask>>
    /\ UNCHANGED <<formVars, serverVars, timer, issued, lastLoadRid>>

\* DeleteResult with the removal applied before the request is answered for good
DeleteResultEager(prev, op) == RemoveId(prev, op.tid)

\* the task list after handleDelete's try / catch
DeleteResult(prev, op) == IF Resolved(op) THEN RemoveId(prev, op.tid) ELSE prev

\* handleDelete after the await of deleteTask
ReceiveDelete(op) ==
    /\ Arrived(op, "delete")
    /\ tasks' = DeleteResult(tasks, op)
    /\ ops' = ops \ {op}
    /\ dialog' = IF Resolved(op) THEN NoAlert ELSE DeleteAlert
    /\ UNCHANGED <<loading, error, searchQuery, tagFilter, isFormOpen, editingTask>>
    /\ UNCHANGED <<formVars, serverVars, timer, issued, lastLoadRid>>

\* SubmitFailed with onClose() moved into the finally block
SubmitFailedCloses(op) ==
    /\ formLoading' = FALSE
    /\ isFormOpen' = FALSE
    /\ editingTask' = <<>>
    /\ ops' = ops \ {op}
    /\ UNCHANGED <<tasks, loading, error, searchQuery, tagFilter, formData,
                   lastLoadRid, issued>>

\* the catch / finally of TaskForm.handleSubmit after onSubmit rejected
SubmitFailed(op) ==
    /\ formLoading' = FALSE
    /\ ops' = ops \ {op}
    /\ UNCHANGED <<appVars, formData, lastLoadRid, issued>>

\* handleCreate after the await of createTask
ReceiveCreate(op) ==
    /\ Arrived(op, "create")
    /\ IF Resolved(op)
       THEN /\ LoadTasks(ops \ {op}, op.search, op.tag, TRUE, op.alone /\ issued = op.rid)
            /\ dialog' = NoAlert
            /\ UNCHANGED <<tasks, searchQuery, tagFilter, isFormOpen, editingTask, formVars>>
       ELSE /\ SubmitFailed(op)
            /\ dialog' = SaveAlert
    /\ UNCHANGED <<serverVars, timer>>

\* handleUpdate after the await of updateTask
ReceiveUpdate(op) ==
    /\ Arrived(op, "update")
    /\ IF Resolved(op)
       THEN /\ editingTask' = <<>>
            /\ formData' = FormAfter(isFormOpen, <<>>)
            /\ LoadTasks(ops \ {op}, op.search, op.tag, TRUE, op.alone /\ issued = op.rid)
            /\ dialog' = NoAlert
            /\ UNCHANGED <<tasks, searchQuery, tagFilter, isFormOpen, formLoading>>
       ELSE /\ SubmitFailed(op)
            /\ dialog' = SaveAlert
    /\ UNCHANGED <<serverVars, timer>>

\* ------------------------------------------------------------ specification
Next ==
    \/ TimerFire /\ Render
    \/ \E q \in SearchInputs : SetSearchQuery(q) /\ Render
    \/ \E tag \in ShownTags \cup {NoTag} : SetTagFilter(tag) /\ Render
    \/ ResetAll /\ Render
    \/ Retry /\ Render
    \/ Refresh /\ Render
    \/ OpenCreateModal /\ Render
    \/ \E i \in 1..Len(tasks) : OpenEditModal(i) /\ Render
    \/ CloseForm /\ Render
    \/ \E fv \in FieldInputs : EditField(fv[1], fv[2]) /\ Render
    \/ Submit /\ Render
    \/ \E i \in 1..Len(tasks) : HandleToggleDone(i) /\ Render
    \/ \E i \in 1..Len(tasks), confirmed \in BOOLEAN : HandleDelete(i, confirmed) /\ Render
    \/ \E op \in ops, outcome \in Outcomes : ServerHandle(op, outcome) /\ Render
    \/ \E op \in ops : ReceiveLoad(op) /\ Render
    \/ \E op \in ops : ReceiveToggle(op) /\ Render
    \/ \E op \in ops : ReceiveDelete(op) /\ Render
    \/ \E op \in ops : ReceiveCreate(op) /\ Render
    \/ \E op \in ops : ReceiveUpdate(op) /\ Render

Spec == Init /\ [][Next]_vars

\* --------------------------------------- the tabs: filter, sort and stats
\* the length of the longest task list the engine is fed
MaxLen == 2

Filters == {"all", "open", "today", "overdue"}
Priorities == {1, 2}

\* the instants and time zones the lists are rendered at: noon and 23:00 UTC
\* of 2024-05-01; five hours behind UTC, UTC, two hours ahead
ClockInputs == {ParseDate("2024-05-01") + 12, ParseDate("2024-05-01") + 23}
Offsets == {-5, 0, 2}

\* the tasks a list may hold: every status, priority and due date
TaskPool ==
    { [id |-> i, title |-> "t", done |-> d, priority |-> p, due_date |-> due,
       notes |-> NULL, tags |-> <<>>] :
         i \in 1..MaxLen, d \in BOOLEAN, p \in Priorities,
         due \in DueDates \cup {NULL} }

\* the task lists of at most MaxLen tasks with distinct ids, in every order
TaskLists ==
    UNION { { l \in [1..n -> TaskPool] :
                \A i, j \in 1..n : i # j => l[i].id # l[j].id } : n \in 0..MaxLen }

\* a dashboard that holds some task list, at some instant in some time zone,
\* with nothing in flight
ViewInit ==
    /\ tasks \in TaskLists
    /\ clock \in ClockInputs
    /\ tzOffset \in Offsets
    /\ currentFilter = "all"
    /\ filteredTasks = FilteredTasks(tasks, currentFilter, clock, tzOffset)
    /\ stats = Stats(tasks, clock, tzOffset)
    /\ CardInit
    /\ loading = FALSE
    /\ error = NULL
    /\ searchQuery = ""
    /\ tagFilter = NoTag
    /\ isFormOpen = FALSE
    /\ editingTask = <<>>
    /\ formData = EmptyForm
    /\ formLoading = FALSE
    /\ timer = <<>>
    /\ server = tasks
    /\ nextId = MaxLen + 1
    /\ ops = {}
    /\ issued = 0
    /\ lastLoadRid = 0
    /\ dialog = NoAlert

\* a click on a tab: setCurrentFilter(f) and the render that follows
SetCurrentFilter(f) ==
    /\ f # currentFilter
    /\ currentFilter' = f
    /\ filteredTasks' = FilteredTasks(tasks, f, clock, tzOffset)
    /\ stats' = stats
    /\ UNCHANGED <<clock, tzOffset>>
    /\ UNCHANGED <<tasks, loading, error, searchQuery, tagFilter, isFormOpen, editingTask>>
    /\ UNCHANGED <<formVars, serverVars, netVars, timer, dialog>>
    /\ UNCHANGED docVars

ViewNext == \E f \in Filters : SetCurrentFilter(f)

ViewSpec == ViewInit /\ [][ViewNext]_vars

\* ------------------------------------ the editor's conversions (FormSpec)
\* the length of the longest text typed into the tags input
MaxTagLen == 4
\* the number of tags of the longest tag list of a persisted task
MaxTags == 2

\* the characters typed into the tags input
TagChars == {"a", "b", ",", " "}

\* the texts of the tags input
TagStrings == UNION { [1..n -> TagChars] : n \in 0..MaxTagLen }

\* the tags a persisted task may carry: the backend stores a list of strings,
\* also one this client would not send (with a comma)
PersistedTags == { <<"a">>, <<"b">>, <<"a", " ", "b">>, <<"a", ",", "b">> }

TagLists == UNION { [1..n -> PersistedTags] : n \in 0..MaxTags }

\* the form fields the user may have typed
TypedForms ==
    { [title |-> "b", priority |-> DefaultPriority, due_date |-> d,
       notes |-> n, tags |-> tg] :
         d \in {"", "2024-05-01"}, n \in {"", "n"}, tg \in TagStrings }

\* a dashboard that shows one persisted task, with the editor open for a new
\* task or for that task and some text typed into the form
FormInit ==
    /\ \E tg \in TagLists :
         tasks = << [id |-> 1, title |-> "a", done |-> FALSE, priority |-> 1,
                     due_date |-> NULL, notes |-> "n", tags |-> tg] >>
    /\ server = tasks
    /\ nextId = 2
    /\ isFormOpen = TRUE
    /\ editingTask \in {<<>>, <<tasks[1]>>}
    /\ formData \in TypedForms
    /\ formLoading = FALSE
    /\ loading = FALSE
    /\ error = NULL
    /\ searchQuery = ""
    /\ tagFilter = NoTag
    /\ timer = <<>>
    /\ ops = {}
    /\ issued = 0
    /\ lastLoadRid = 0
    /\ dialog = NoAlert
    /\ currentFilter = "all"
    /\ clock = ParseDate("2024-05-01") + 12
    /\ tzOffset = 0
    /\ filteredTasks = FilteredTasks(tasks, currentFilter, clock, tzOffset)
    /\ stats = Stats(tasks, clock, tzOffset)
    /\ CardInit

FormNext ==
    \/ OpenCreateModal /\ Render
    \/ \E i \in 1..Len(tasks) : OpenEditModal(i) /\ Render
    \/ CloseForm /\ Render
    \/ Submit /\ Render

FormSpec == FormInit /\ [][FormNext]_vars

\* ------------------------------- the card's documents (TaskCard.tsx, DocSpec)
\* total number of document requests the card issues in one behaviour
MaxDocOps == 3

\* the task whose card is modelled (the task prop of TaskCard)
CardTask == 1

\* error texts of the document area
DocsLoadError == "Dokumente konnten nicht geladen werden"
UploadError == "Upload fehlgeschlagen"
DeleteDocError == "Löschen fehlgeschlagen"

\* everything but the card, the documents and the dialog
dashVars == <<appVars, formVars, serverVars, netVars, timer, currentFilter,
              clock, tzOffset, filteredTasks, stats>>

\* a document request in flight; doc is the id of the document a DELETE names
\* or, in the response, the document an upload created; data is the list a
\* GET answered
DocOp(rid, kind, doc) ==
    [rid |-> rid, kind |-> kind, stage |-> "req", ok |-> FALSE, doc |-> doc,
     data |-> <<>>]

\* GET /tasks/{id}/documents
ServerDocuments(docs, taskId) == SelectSeq(docs, LAMBDA d : d.task_id = taskId)

\* POST /tasks/{id}/documents
ServerUpload(docs, id, taskId) == Append(docs, [id |-> id, task_id |-> taskId])

\* DELETE /documents/{id}
ServerDeleteDocument(docs, id) == SelectSeq(docs, LAMBDA d : d.id # id)

HasDocument(docs, id) == \E j \in 1..Len(docs) : docs[j].id = id

\* setDocuments(prev => [newDoc, ...prev])
Prepend(newDoc, prev) == <<newDoc>> \o prev

\* setDocuments(prev => prev.filter(d => d.id !== id))
WithoutDocument(prev, id) == SelectSeq(prev, LAMBDA d : d.id # id)

\* the effect of the card at mount: loadDocuments up to the await of
\* fetchDocuments
LoadDocuments ==
    /\ docIssued = 0
    /\ docsLoading' = TRUE
    /\ docsError' = NULL
    /\ docIssued' = docIssued + 1
    /\ docOps' = docOps \cup {DocOp(docIssued + 1, "fetch", 0)}
    /\ dialog' = NoAlert
    /\ UNCHANGED <<documents, serverDocs, nextDocId, dashVars>>

\* handleFileChange with a file chosen, up to the await of uploadDocument;
\* the file input is never disabled
HandleFileChange ==
    /\ docIssued > 0
    /\ docIssued < MaxDocOps
    /\ docsLoading' = TRUE
    /\ docsError' = NULL
    /\ docIssued' = docIssued + 1
    /\ docOps' = docOps \cup {DocOp(docIssued + 1, "upload", 0)}
    /\ dialog' = NoAlert
    /\ UNCHANGED <<documents, serverDocs, nextDocId, dashVars>>

\* handleDeleteDocument(documents[i].id) up to the await of deleteDocument;
\* confirmed is the user's answer to window.confirm
HandleDeleteDocument(i, confirmed) ==
    /\ docIssued > 0
    /\ docIssued < MaxDocOps
    /\ IF confirmed
       THEN /\ docIssued' = docIssued + 1
            /\ docOps' = docOps \cup {DocOp(docIssued + 1, "remove", documents[i].id)}
       ELSE UNCHANGED <<docIssued, docOps>>
    /\ dialog' = IF confirmed THEN ConfirmYes ELSE ConfirmNo
    /\ UNCHANGED <<cardVars, serverDocs, nextDocId, dashVars>>

\* a document request reaches the backend (or is lost) and its response is on
\* its way; DELETE of an unknown document is 404
DocServerHandle(op, outcome) ==
    /\ op \in docOps
    /\ op.stage = "req"
    /\ (outcome # "refused" /\ op.kind = "remove") => HasDocument(serverDocs, op.doc)
    /\ serverDocs' =
         CASE outcome = "refused" -> serverDocs
           [] op.kind = "upload" -> ServerUpload(serverDocs, nextDocId, CardTask)
           [] op.kind = "remove" -> ServerDeleteDocument(serverDocs, op.doc)
           [] OTHER -> serverDocs
    /\ nextDocId' = IF outcome # "refused" /\ op.kind = "upload"
                    THEN nextDocId + 1 ELSE nextDocId
    /\ docOps' = (docOps \ {op}) \cup
         {[op EXCEPT !.stage = "resp", !.ok = (outcome = "ok"),
                     !.doc = IF outcome = "ok" /\ op.kind = "upload"
                             THEN nextDocId ELSE op.doc,
                     !.data = IF outcome = "ok" /\ op.kind = "fetch"
                              THEN ServerDocuments(serverDocs, CardTask)
                              ELSE <<>>]}
    /\ dialog' = NoAlert
    /\ UNCHANGED <<cardVars, docIssued, dashVars>>

DocArrived(op, kind) == op \in docOps /\ op.kind = kind /\ op.stage = "resp"

\* loadDocuments after the await: setDocuments(docs), or the catch block;
\* finally
ReceiveDocuments(op) ==
    /\ DocArrived(op, "fetch")
    /\ docOps' = docOps \ {op}
    /\ documents' = IF op.ok THEN op.data ELSE documents
    /\ docsError' = IF op.ok THEN docsError ELSE DocsLoadError
    /\ docsLoading' = FALSE
    /\ dialog' = NoAlert
    /\ UNCHANGED <<serverDocs, nextDocId, docIssued, dashVars>>

\* handleFileChange after the await: the new document is put in front of
\* the list, or the catch block; finally
ReceiveUpload(op) ==
    /\ DocArrived(op, "upload")
    /\ docOps' = docOps \ {op}
    /\ documents' = IF op.ok
                    THEN Prepend([id |-> op.doc, task_id |-> CardTask], documents)
                    ELSE documents
    /\ docsError' = IF op.ok THEN docsError ELSE UploadError
    /\ docsLoading' = FALSE
    /\ dialog' = NoAlert
    /\ UNCHANGED <<serverDocs, nextDocId, docIssued, dashVars>>

\* handleDeleteDocument after the await: the document is filtered out, or
\* the catch block
ReceiveDeleteDocument(op) ==
    /\ DocArrived(op, "remove")
    /\ docOps' = docOps \ {op}
    /\ documents' = IF op.ok THEN WithoutDocument(documents, op.doc) ELSE documents
    /\ docsError' = IF op.ok THEN docsError ELSE DeleteDocError
    /\ dialog' = NoAlert
    /\ UNCHANGED <<docsLoading, serverDocs, nextDocId, docIssued, dashVars>>

\* a dashboard that shows the seed tasks with nothing in flight; the card of
\* CardTask has just been mounted
DocInit ==
    /\ tasks = SeedTasks
    /\ server = SeedTasks
    /\ nextId = Len(SeedTasks) + 1
    /\ loading = FALSE
    /\ error = NULL
    /\ searchQuery = ""
    /\ tagFilter = NoTag
    /\ isFormOpen = FALSE
    /\ editingTask = <<>>
    /\ formData = EmptyForm
    /\ formLoading = FALSE
    /\ timer = <<>>
    /\ ops = {}
    /\ issued = 0
    /\ lastLoadRid = 0
    /\ dialog = NoAlert
    /\ currentFilter = "all"
    /\ clock = ParseDate("2024-05-01") + 12
    /\ tzOffset = 0
    /\ filteredTasks = FilteredTasks(tasks, currentFilter, clock, tzOffset)
    /\ stats = Stats(tasks, clock, tzOffset)
    /\ CardInit

DocNext ==
    \/ LoadDocuments
    \/ HandleFileChange
    \/ \E i \in 1..Len(documents), confirmed \in BOOLEAN : HandleDeleteDocument(i, confirmed)
    \/ \E op \in docOps, outcome \in Outcomes : DocServerHandle(op, outcome)
    \/ \E op \in docOps : ReceiveDocuments(op)
    \/ \E op \in docOps : ReceiveUpload(op)
    \/ \E op \in docOps : ReceiveDeleteDocument(op)

DocSpec == DocInit /\ [][DocNext]_vars


\* ================================================================= claims
InFlight(kinds) == {op \in ops : op.kind \in kinds}

\* the positions of list whose task has id
IndexOf(list, id) == {j \in 1..Len(list) : list[j].id = id}

\* C1: the response of a task-list request is never applied to the local
\* task list when a more recent task-list request had already been issued at
\* the time the response arrived.
C1_NoStaleResponseApplied ==
    [][\A op \in ops : (ReceiveLoad(op) /\ op.ok) => op.rid = lastLoadRid]_vars

\* C2: the step that invokes handleToggleDone for the task at position i sets
\* that task's done to the negation of the displayed value and changes no
\* other task and no other field, while the PATCH request is still unanswered.
C2_ToggleIsOptimistic ==
    [][\A i \in 1..Len(tasks) :
          HandleToggleDone(i) =>
            /\ Len(tasks') = Len(tasks)
            /\ \A j \in 1..Len(tasks) :
                 tasks'[j] = IF j = i THEN [tasks[j] EXCEPT !.done = ~tasks[i].done]
                             ELSE tasks[j]
            /\ \E op \in ops' \ ops :
                 /\ op.kind = "toggle" /\ op.stage = "req"
                 /\ op.tid = tasks[i].id /\ op.val = ~tasks[i].done]_vars

\* a toggle is applied locally, its PATCH request is not yet answered, and
\* the list holds another task as well
C2_Witness ==
    \E op \in ops :
        /\ op.kind = "toggle" /\ op.stage = "req"
        /\ Len(tasks) = 2
        /\ \E j \in IndexOf(tasks, op.tid) : tasks[j].done = op.val

\* C3: when the PATCH request of a toggle of task X has failed and the failure
\* is handled, X.done in the local list is the value X.done had immediately
\* before that toggle was applied, and an alert is shown; whatever else was
\* applied in between.
C3_FailedToggleReverts ==
    [][\A op \in ops :
          (ReceiveToggle(op) /\ ~op.ok) =>
            /\ dialog' = ToggleAlert
            /\ \A j \in IndexOf(tasks', op.tid) : tasks'[j].done = op.prev]_vars

\* a failed toggle of a listed task has just been handled while another
\* toggle request is still in flight
C3_Witness ==
    /\ dialog = ToggleAlert
    /\ \E op \in ops : op.kind = "toggle" /\ IndexOf(tasks, op.tid) # {}

\* C4: at most one operation that reads or writes the local task list
\* (task-list reload, toggle, delete) is in flight at any time.
C4_SingleOperationInFlight ==
    Cardinality(InFlight({"load", "toggle", "delete"})) <= 1

\* C5: when a confirmed delete of task X succeeds, the local list afterwards
\* is the list of that moment without the entries of id X: the other tasks,
\* their fields and their relative order are unchanged.
C5_DeleteRemovesOnlyX ==
    [][\A op \in ops :
          (ReceiveDelete(op) /\ op.ok) =>
            LET keep == {j \in 1..Len(tasks) : tasks[j].id # op.tid}
            IN  /\ Len(tasks') = Cardinality(keep)
                /\ \A j \in keep :
                     tasks'[Cardinality({k \in keep : k <= j})] = tasks[j]]_vars

\* the list was loaded, then task 1 or 2 was deleted and the other one remains
C5_Witness ==
    /\ issued = 2 /\ ops = {}
    /\ Len(server) = 1
    /\ Len(tasks) = 1 /\ tasks = server


\* the requests of ops' that were issued in this step
Issued(kinds) == {n \in ops' : n.kind \in kinds /\ n.rid \notin {o.rid : o \in ops}}

\* C6: a create, edit or delete whose backend call fails changes the local
\* task list neither when it is issued nor when the failure is handled, issues
\* no task-list request, and an alert is shown.
C6_FailedMutationLeavesList ==
    [][/\ (Submit \/ \E i \in 1..Len(tasks) : HandleDelete(i, TRUE)) =>
            (tasks' = tasks /\ Issued({"load"}) = {})
       /\ \A op \in ops :
            ((ReceiveCreate(op) \/ ReceiveUpdate(op) \/ ReceiveDelete(op)) /\ ~op.ok) =>
               /\ tasks' = tasks
               /\ ops' = ops \ {op}
               /\ dialog' = IF op.kind = "delete" THEN DeleteAlert ELSE SaveAlert]_vars

\* a failed delete has just been handled and both tasks are still listed
C6_Witness == dialog = DeleteAlert /\ Len(tasks) = 2

\* C7: when the create or update request of a form submission fails, handling
\* the failure leaves the editor's visibility, the form fields and the editing
\* target as they are, enables the submit control again and shows an alert.
C7_FailedSubmitKeepsEditor ==
    [][\A op \in ops :
          ((ReceiveCreate(op) \/ ReceiveUpdate(op)) /\ ~op.ok) =>
             /\ isFormOpen' = isFormOpen
             /\ formData' = formData
             /\ editingTask' = editingTask
             /\ formLoading' = FALSE
             /\ dialog' = SaveAlert]_vars

\* a failed submission has just been handled: the editor is open with the
\* typed title and can be submitted again
C7_Witness ==
    /\ dialog = SaveAlert
    /\ isFormOpen /\ ~formLoading
    /\ formData.title = "b"

\* C8: handleCreate and handleUpdate never change the task list themselves,
\* and a follow-up task-list request is issued only in the step that handles
\* the successful response of the create / update request.
C8_NoOptimisticCreateOrUpdate ==
    [][/\ Submit => (tasks' = tasks /\ Issued({"load"}) = {})
       /\ \A op \in ops : (ReceiveCreate(op) \/ ReceiveUpdate(op)) => tasks' = tasks
       /\ \A n \in Issued({"load"}) :
            n.cont => \E op \in ops \ ops' :
                         op.kind \in {"create", "update"} /\ op.stage = "resp" /\ op.ok]_vars

\* the follow-up reload of a submission is in flight, the list still as before
C8_Witness ==
    \E op \in ops : op.kind = "load" /\ op.cont /\ op.stage = "req" /\ Len(tasks) = 2

C10_DeleteNeedsConfirmation ==
    [][/\ \A i \in 1..Len(tasks) :
            HandleDelete(i, FALSE) =>
               (ops' = ops /\ issued' = issued /\ tasks' = tasks /\ server' = server)
       /\ \A n \in Issued({"delete"}) :
            dialog' = ConfirmYes /\ IndexOf(tasks, n.tid) # {}]_vars

\* the user has just declined a deletion: nothing is in flight for it
C10_Witness ==
    /\ dialog = ConfirmNo
    /\ Len(tasks) = 2
    /\ InFlight({"delete"}) = {}

\* C11: handling a failed task-list request leaves the local task list as it
\* is, sets the error banner, resets the loading flag, issues no request and
\* starts no timer; a task-list request is issued only by retry, refresh, the
\* debounce timer of a search / tag change (or of the mount), or the handling
\* of a successful create / edit.
C11_FailedLoadKeepsList ==
    [][/\ \A op \in ops :
            (ReceiveLoad(op) /\ ~op.ok) =>
               /\ tasks' = tasks
               /\ error' = LoadErrorMsg
               /\ loading' = FALSE
               /\ Issued({"load", "create", "update", "toggle", "delete"}) = {}
               /\ timer' = timer
       /\ Issued({"load"}) # {} =>
            \/ Retry \/ Refresh \/ TimerFire
            \/ \E op \in ops : (ReceiveCreate(op) \/ ReceiveUpdate(op)) /\ op.ok]_vars

\* the list was loaded and a later task-list request failed: both tasks are
\* still listed under the error banner and nothing is in flight
C11_Witness ==
    /\ error = LoadErrorMsg /\ ~loading
    /\ Len(tasks) = 2
    /\ ops = {} /\ timer = <<>>

\* C12: a change of searchQuery or tagFilter issues no request and leaves
\* exactly one debounce timer pending, which carries the new search and tag
\* (the timer of the previous change is cancelled); never is more than one
\* timer pending; and when the timer fires, exactly one request is issued, a
\* task-list request with the latest searchQuery and tagFilter, and no timer
\* of the burst remains.
C12_DebounceOneRequest ==
    [][/\ Len(timer') <= 1
       /\ (searchQuery' # searchQuery \/ tagFilter' # tagFilter) =>
            /\ timer' = << [search |-> searchQuery', tag |-> tagFilter'] >>
            /\ Issued({"load", "create", "update", "toggle", "delete"}) = {}
       /\ TimerFire =>
            /\ timer' = <<>>
            /\ \E n \in Issued({"load"}) :
                 /\ Issued({"load", "create", "update", "toggle", "delete"}) = {n}
                 /\ n.search = searchQuery /\ n.tag = tagFilter]_vars

\* after the first load the user typed a search and clicked a tag before the
\* timer fired: one request, the second of the behaviour, carries both
C12_Witness ==
    /\ issued = 2 /\ timer = <<>>
    /\ \E op \in ops :
         /\ op.kind = "load" /\ op.rid = 2
         /\ op.search = "a" /\ op.tag = <<"x">>

\* ------------------------------------------- claims about the tabs (ViewSpec)
\* the current local calendar day
Today == LocalDay(clock, tzOffset)

\* the open tasks of the list whose due date is a calendar date
OpenDated == {t \in Range(tasks) : ~t.done /\ HasDueDate(t)}

\* how often task t occurs in list
Count(list, t) == Cardinality({i \in 1..Len(list) : list[i] = t})

\* C13: an open task whose due_date is the current local calendar date is
\* kept by the 'today' tab and not by the 'overdue' tab, and its card has the
\* today badge and not the overdue badge, at every instant in every time zone.
C13_DueTodayIsTodayNotOverdue ==
    \A t \in OpenDated :
        DayNumber(t.due_date) = Today =>
            /\ currentFilter = "today" => t \in Range(filteredTasks)
            /\ currentFilter = "overdue" => t \notin Range(filteredTasks)
            /\ CardIsDueToday(t, clock, tzOffset)
            /\ ~CardIsOverdue(t, clock, tzOffset)

\* C14: under the 'overdue' tab the output holds exactly the open tasks whose
\* due_date is a calendar date strictly earlier than the current local
\* calendar date, at every instant in every time zone.
C14_OverdueIsEarlierDate ==
    currentFilter = "overdue" =>
        Range(filteredTasks) = {t \in OpenDated : DayNumber(t.due_date) < Today}

\* C15: under the 'today' tab the output holds exactly the open tasks whose
\* due_date is the current local calendar date, at every instant in every
\* time zone.
C15_TodayIsSameDate ==
    currentFilter = "today" =>
        Range(filteredTasks) = {t \in OpenDated : DayNumber(t.due_date) = Today}

\* C16: for a listed before b in the output: a is not done while b is open;
\* with equal done, a.priority <= b.priority; with equal priority as well, it
\* is not the case that b has a due date and a has none, and if both have one
\* a's is not later than b's.
C16_OutputIsOrdered ==
    \A i, j \in 1..Len(filteredTasks) :
        i < j =>
            LET a == filteredTasks[i]
                b == filteredTasks[j]
            IN  /\ ~(a.done /\ ~b.done)
                /\ a.done = b.done => a.priority <= b.priority
                /\ (a.done = b.done /\ a.priority = b.priority) =>
                     /\ ~(HasDueDate(b) /\ ~HasDueDate(a))
                     /\ (HasDueDate(a) /\ HasDueDate(b)) =>
                          DayNumber(a.due_date) <= DayNumber(b.due_date)

\* the engine exchanged two tasks under the 'open' tab: an open task of
\* priority 1 that followed an open task of priority 2 in the list precedes
\* it in the output
C16_Witness ==
    /\ currentFilter = "open"
    /\ Len(tasks) = 2
    /\ ~tasks[1].done /\ tasks[1].priority = 2
    /\ ~tasks[2].done /\ tasks[2].priority = 1
    /\ filteredTasks = <<tasks[2], tasks[1]>>

\* do a and b tie on completion status, priority and due date
Tie(a, b) ==
    /\ a.done = b.done
    /\ a.priority = b.priority
    /\ HasDueDate(a) = HasDueDate(b)
    /\ HasDueDate(a) => a.due_date = b.due_date

\* C17: two tasks of the output that tie on completion status, priority and
\* due date are listed in descending order of their ids.
C17_TiesByDescendingId ==
    \A i, j \in 1..Len(filteredTasks) :
        (i < j /\ Tie(filteredTasks[i], filteredTasks[j])) =>
            filteredTasks[i].id > filteredTasks[j].id

\* C18: the engine's output fed back into the engine, under the same tab at
\* the same instant, is the output.
C18_SortIsIdempotent ==
    FilteredTasks(filteredTasks, currentFilter, clock, tzOffset) = filteredTasks

\* after a click on a tab the output holds two tasks the comparator does not
\* order: a sort that exchanged them would exchange them again
C18_Witness ==
    /\ currentFilter = "today"
    /\ Len(filteredTasks) = 2
    /\ filteredTasks[1] # filteredTasks[2]
    /\ Compare(filteredTasks[1], filteredTasks[2]) = 0

\* C19: tab 'all' outputs every task of the list exactly once, tab 'open'
\* exactly the open tasks, each once; under every tab the output holds only
\* tasks of the list and none more often than the list does.
C19_FilterIsSubset ==
    /\ \A t \in Range(filteredTasks) : Count(filteredTasks, t) <= Count(tasks, t)
    /\ currentFilter = "all" =>
         \A t \in Range(tasks) : Count(filteredTasks, t) = Count(tasks, t)
    /\ currentFilter = "open" =>
         \A t \in Range(tasks) :
             Count(filteredTasks, t) = IF t.done THEN 0 ELSE Count(tasks, t)

\* under tab 'open' one of two tasks is shown, the other one is done
C19_Witness ==
    /\ currentFilter = "open"
    /\ Len(tasks) = 2 /\ Len(filteredTasks) = 1
    /\ \E t \in Range(tasks) : t.done

\* C20: total is the number of tasks, open the number of open tasks, done is
\* total - open, dueToday and overdue are the numbers of tasks the 'today'
\* and the 'overdue' tab keep for the same list at the same instant; hence
\* open + done = total and dueToday + overdue <= open.
C20_StatsMatchFilters ==
    LET Open(t) == ~t.done
    IN  /\ stats.total = Len(tasks)
        /\ stats.open = Len(SelectSeq(tasks, Open))
        /\ stats.done = stats.total - stats.open
        /\ stats.dueToday = Len(FilteredTasks(tasks, "today", clock, tzOffset))
        /\ stats.overdue = Len(FilteredTasks(tasks, "overdue", clock, tzOffset))
        /\ stats.open + stats.done = stats.total
        /\ stats.dueToday + stats.overdue <= stats.open

\* one task is counted as due today and another one as overdue, and the
\* 'today' tab shows the former
C20_Witness ==
    /\ currentFilter = "today" /\ Len(filteredTasks) = 1
    /\ stats.dueToday = 1 /\ stats.overdue = 1
    /\ stats.open = 2 /\ stats.done = 0

\* ---------------------------------- claims about the editor (FormSpec)
\* the submission requests
Submissions == {"create", "update"}

\* C21: a submitted form's due_date and notes are sent as null when they are
\* the empty string and unchanged otherwise; no payload of a create or update
\* request holds an empty string for either; createTask and updateTask
\* normalise the two fields of the same form data to the same values.
C21_EmptyFieldsSentAsNull ==
    [][/\ Submit =>
            \A n \in Issued(Submissions) :
                /\ n.payload.due_date =
                     IF formData.due_date = "" THEN NULL ELSE formData.due_date
                /\ n.payload.notes =
                     IF formData.notes = "" THEN NULL ELSE formData.notes
       /\ \A n \in ops' :
            n.kind \in Submissions => (n.payload.due_date # "" /\ n.payload.notes # "")
       /\ CreatePayload(formData).due_date = UpdatePayload(formData).due_date
       /\ CreatePayload(formData).notes = UpdatePayload(formData).notes]_vars

\* a form with an empty due date and notes "n" was submitted as a new task:
\* the POST request in flight carries null and "n"
C21_Witness ==
    \E op \in ops :
        /\ op.kind = "create"
        /\ formData.due_date = "" /\ formData.notes = "n"
        /\ op.payload.due_date = NULL /\ op.payload.notes = "n"

\* the positions that delimit the comma-separated segments of str
Delimiters(str) == {i \in 1..Len(str) : str[i] = ","} \cup {0, Len(str) + 1}

\* the positions of the segment that begins after delimiter p which hold no
\* blank
Inked(str, p) ==
    LET q == CHOOSE d \in Delimiters(str) :
                 d > p /\ \A e \in Delimiters(str) : e > p => d <= e
    IN  {i \in (p + 1)..(q - 1) : str[i] # " "}

\* the delimiters that begin a segment which is not blank
Starts(str) == {p \in Delimiters(str) : p <= Len(str) /\ Inked(str, p) # {}}

\* the segments of str between its commas, each without the blanks around it,
\* the blank ones left out, from left to right
Segments(str) ==
    [k \in 1..Cardinality(Starts(str)) |->
        LET p == CHOOSE d \in Starts(str) :
                     Cardinality({e \in Starts(str) : e <= d}) = k
            lo == CHOOSE i \in Inked(str, p) : \A j \in Inked(str, p) : i <= j
            hi == CHOOSE i \in Inked(str, p) : \A j \in Inked(str, p) : i >= j
        IN  SubSeq(str, lo, hi)]

\* C22: the tag list of the payload of a submitted form is the sequence of
\* the comma-separated segments of the form's tags text, each trimmed, the
\* empty ones removed, in their order; for createTask and updateTask alike.
C22_TagsAreTrimmedSegments ==
    [][Submit =>
          \A n \in Issued(Submissions) : n.payload.tags = Segments(formData.tags)]_vars

\* the text " b,a" was submitted for the persisted task: the PATCH request
\* carries the tags b and a
C22_Witness ==
    \E op \in ops :
        /\ op.kind = "update"
        /\ formData.tags = <<" ", "b", ",", "a">>
        /\ op.payload.tags = << <<"b">>, <<"a">> >>

Same(list, t) == {list[j] : j \in IndexOf(list, t.id)}

\* C24: when every request has settled and the only task-list request was
\* the first one, so that every later change of a listed task's done came
\* from toggles, each listed task that the server holds has the server's
\* value of done.
C24_TogglesConverge ==
    (ops = {} /\ lastLoadRid = 1) =>
        \A i \in 1..Len(tasks) :
            \A t \in Same(server, tasks[i]) : tasks[i].done = t.done

\* C25: a successful task-list response adds no task to the local list that
\* is neither listed nor held by the server (a deleted one), and it leaves
\* done of a listed task as it is when the server holds that value and no
\* toggle of the task is in flight.
C25_LoadKeepsConfirmedMutations ==
    [][\A op \in ops :
          (ReceiveLoad(op) /\ op.ok) =>
              \A j \in 1..Len(tasks') :
                  LET t == tasks'[j]
                  IN  /\ IndexOf(tasks, t.id) # {} \/ HasTask(server, t.id)
                      /\ \A old \in Same(tasks, t) :
                           (/\ \A srv \in Same(server, t) : srv.done = old.done
                            /\ \A o \in InFlight({"toggle"}) : o.tid # t.id) =>
                               t.done = old.done]_vars

\* the requests of a form submission: the create / update request and the
\* task-list request that handleCreate / handleUpdate await after it
Submitting == {op \in ops : op.kind \in Submissions \/ (op.kind = "load" /\ op.cont)}

\* C26: at most one form submission is in flight, and while one is, the
\* submit control is disabled, whether the editor is open, closed or open
\* again.
C26_OneSubmissionInFlight ==
    /\ Cardinality(Submitting) <= 1
    /\ Submitting # {} => SubmitDisabled

\* a new task was submitted, the editor was closed and opened again for a
\* listed task with a title typed: the POST request is still in flight
C26_Witness ==
    /\ \E op \in ops : op.kind = "create"
    /\ isFormOpen /\ editingTask # <<>>
    /\ formData.title # ""

\* C27: the completion of a submission leaves an editor alone that is not
\* the one the submission was made from: an editor open for another task
\* than the one an answered update request edited, or open for any task
\* when the follow-up task-list request of a submission completes (the
\* editor of a create has no task, that of an update lost its task when the
\* update was answered).
C27_CompletionSparesNewEditor ==
    [][\A op \in ops :
          /\ (/\ ReceiveUpdate(op) /\ op.ok
               /\ isFormOpen /\ editingTask # <<>> /\ editingTask[1].id # op.tid) =>
                  (isFormOpen' /\ editingTask' = editingTask)
          /\ (ReceiveLoad(op) /\ op.cont /\ isFormOpen /\ editingTask # <<>>) =>
                  (isFormOpen' /\ editingTask' = editingTask)]_vars

\* C28: once the first task-list request has been issued, the loading flag
\* is true exactly when a task-list request is in flight.
C28_LoadingIffInFlight ==
    lastLoadRid > 0 => (loading <=> InFlight({"load"}) # {})

\* C29: when a task-list request completes and no other one is in flight,
\* the error banner is shown exactly if that request failed.
C29_ErrorIffLastLoadFailed ==
    [][\A op \in ops :
          (ReceiveLoad(op) /\ {o \in ops' : o.kind = "load"} = {}) =>
              ((error' # NULL) <=> ~op.ok)]_vars

\* --------------------------------- claims about the documents (DocSpec)
\* the documents of the card's task that were uploaded and are stored
Uploaded ==
    {d \in Range(serverDocs) : d.task_id = CardTask /\ d.id > Len(SeedDocs)}

\* C30: once all of the card's document requests have settled, every
\* document that was uploaded for the card's task and not deleted since is in
\* the card's local document list.
C30_UploadStaysListed ==
    docOps = {} => \A d \in Uploaded : d \in Range(documents)

====
